---- MODULE Spec2Model ----
(***************************************************************************)
(* OMIE API integration tool: the pagination loop of the command line      *)
(* program (api_omie.py), the same loop run by ApiWorker inside the Qt     *)
(* application (app.py), the endpoint registry (config.py) and the output  *)
(* file writer.  The remote server, the user and the file system are the   *)
(* environment: the server answers each request with any outcome of        *)
(* NetOutcomes, the user types any input of the input sets.                *)
(***************************************************************************)
EXTENDS Integers, Sequences, FiniteSets, TLC

(***************************************************************************)
(* Bounds of the model.                                                    *)
(***************************************************************************)
\* largest total_de_paginas the simulated server declares
MaxTotal == 3
\* the names response.json, response_1.json, ..., response_<MaxExisting>.json
\* may already exist when the program starts
MaxExisting == 1
\* how many times Execute is clicked in one session of the application
MaxRuns == 2
\* the same two bounds in the specification of the window with its profiles
GuiMaxTotal == 2
GuiMaxRuns == 1

(***************************************************************************)
(* Program constants.                                                      *)
(***************************************************************************)
\* "registros_por_pagina": 50
PageSize == 50
\* response.status_code != 200
HttpOk == 200

(***************************************************************************)
(* config.calltype: the endpoint registry, in insertion order.             *)
(***************************************************************************)
CallNames ==
    << "ListarContasReceber", "ListarContasPagar", "ListarDepatartamentos",
       "ListarProjetos", "ListarClientes", "ListarCategorias",
       "ListarContasCorrentes" >>

CallUrls ==
    << "https://app.omie.com.br/api/v1/financas/contareceber/",
       "https://app.omie.com.br/api/v1/financas/contapagar/",
       "https://app.omie.com.br/api/v1/geral/departamentos/",
       "https://app.omie.com.br/api/v1/geral/projetos/",
       "https://app.omie.com.br/api/v1/geral/clientes/",
       "https://app.omie.com.br/api/v1/geral/categorias/",
       "https://app.omie.com.br/api/v1/geral/contacorrente/" >>

Registered == { CallNames[i] : i \in 1..Len(CallNames) }

\* config.calltype.get(call): <<url>>, or <<>> for None
CalltypeGet_NoCheck(call) ==
    IF call \in Registered
    THEN << CallUrls[CHOOSE i \in 1..Len(CallNames) : CallNames[i] = call] >>
    ELSE << CallUrls[1] >>

CalltypeGet(call) ==
    IF call \in Registered
    THEN << CallUrls[CHOOSE i \in 1..Len(CallNames) : CallNames[i] = call] >>
    ELSE << >>

(***************************************************************************)
(* Python values, as far as the program handles them: None, int, str,      *)
(* dict (an ordered sequence of key/value members) and list.               *)
(***************************************************************************)
PyNone == [type |-> "None", n |-> 0, s |-> "", members |-> << >>, items |-> << >>]
PyInt(k) == [type |-> "int", n |-> k, s |-> "", members |-> << >>, items |-> << >>]
PyStr(x) == [type |-> "str", n |-> 0, s |-> x, members |-> << >>, items |-> << >>]
PyDict(ms) == [type |-> "dict", n |-> 0, s |-> "", members |-> ms, items |-> << >>]
PyList(xs) == [type |-> "list", n |-> 0, s |-> "", members |-> << >>, items |-> xs]

\* bool(v)
Truthy(v) ==
    CASE v.type = "None" -> FALSE
      [] v.type = "int"  -> v.n # 0
      [] v.type = "str"  -> v.s # ""
      [] v.type = "dict" -> v.members # << >>
      [] v.type = "list" -> v.items # << >>

\* dict.get(key, default): the last member with that key wins
DictGet(d, key, default) ==
    LET hits == { i \in 1..Len(d.members) : d.members[i].key = key }
    IN  IF hits = {} THEN default
        ELSE d.members[CHOOSE i \in hits : \A j \in hits : j <= i].val

(***************************************************************************)
(* JSON text, as a sequence of tokens (white space left out).              *)
(***************************************************************************)
Digits == << "0", "1", "2", "3", "4", "5", "6", "7", "8", "9" >>
StrTokens == { "total_de_paginas", "payload", "a", "b", "x" }

IsNum(t) == \E i \in 1..Len(Digits) : Digits[i] = t
StrToInt(t) == (CHOOSE i \in 1..Len(Digits) : Digits[i] = t) - 1
IntToStr(k) == Digits[k + 1]

IsScalarTok(t) == t = "null" \/ IsNum(t) \/ t \in StrTokens
ScalarOf(t) ==
    IF t = "null" THEN PyNone
    ELSE IF IsNum(t) THEN PyInt(StrToInt(t))
    ELSE PyStr(t)

Tok(toks, i) == IF i \in 1..Len(toks) THEN toks[i] ELSE "<eof>"

ParseFail == [ok |-> FALSE, val |-> PyNone, next |-> 0]
ParseOk(v, i) == [ok |-> TRUE, val |-> v, next |-> i]

\* the members of an object after "{": key ":" scalar, separated by ","
RECURSIVE ParseMembers(_, _, _)
ParseMembers(toks, i, acc) ==
    IF Tok(toks, i) \in StrTokens /\ Tok(toks, i + 1) = ":"
       /\ IsScalarTok(Tok(toks, i + 2))
    THEN LET acc2 == Append(acc, [key |-> toks[i], val |-> ScalarOf(toks[i + 2])])
         IN  IF Tok(toks, i + 3) = "}" THEN ParseOk(PyDict(acc2), i + 4)
             ELSE IF Tok(toks, i + 3) = "," THEN ParseMembers(toks, i + 4, acc2)
             ELSE ParseFail
    ELSE ParseFail

\* a scalar or an object starting at token i
ParseItem(toks, i) ==
    IF Tok(toks, i) = "{"
    THEN IF Tok(toks, i + 1) = "}" THEN ParseOk(PyDict(<< >>), i + 2)
         ELSE ParseMembers(toks, i + 1, << >>)
    ELSE IF IsScalarTok(Tok(toks, i)) THEN ParseOk(ScalarOf(toks[i]), i + 1)
    ELSE ParseFail

\* the elements of an array after "[": items separated by ","
RECURSIVE ParseElements(_, _, _)
ParseElements(toks, i, acc) ==
    LET r == ParseItem(toks, i)
    IN  IF ~ r.ok THEN ParseFail
        ELSE IF Tok(toks, r.next) = "]"
             THEN ParseOk(PyList(Append(acc, r.val)), r.next + 1)
        ELSE IF Tok(toks, r.next) = ","
             THEN ParseElements(toks, r.next + 1, Append(acc, r.val))
        ELSE ParseFail

ParseValue(toks, i) ==
    IF Tok(toks, i) = "["
    THEN IF Tok(toks, i + 1) = "]" THEN ParseOk(PyList(<< >>), i + 2)
         ELSE ParseElements(toks, i + 1, << >>)
    ELSE ParseItem(toks, i)

\* json.loads / response.json(): ok is FALSE when the text is not JSON
\* (json.JSONDecodeError)
Loads(toks) ==
    LET r == ParseValue(toks, 1)
    IN  IF r.ok /\ r.next = Len(toks) + 1 THEN r ELSE ParseFail

RECURSIVE DumpMembers(_)
DumpMembers(ms) ==
    IF ms = << >> THEN << >>
    ELSE LET m == Head(ms)
             v == IF m.val.type = "None" THEN "null"
                  ELSE IF m.val.type = "int" THEN IntToStr(m.val.n)
                  ELSE m.val.s
         IN  << m.key, ":", v >>
             \o (IF Tail(ms) = << >> THEN << >> ELSE << "," >>)
             \o DumpMembers(Tail(ms))

RECURSIVE DumpItem(_)
RECURSIVE DumpItems(_)
DumpItem(v) ==
    CASE v.type = "None" -> << "null" >>
      [] v.type = "int"  -> << IntToStr(v.n) >>
      [] v.type = "str"  -> << v.s >>
      [] v.type = "dict" -> << "{" >> \o DumpMembers(v.members) \o << "}" >>
      [] v.type = "list" -> << "[" >> \o DumpItems(v.items) \o << "]" >>

DumpItems(xs) ==
    IF xs = << >> THEN << >>
    ELSE DumpItem(Head(xs))
         \o (IF Tail(xs) = << >> THEN << >> ELSE << "," >>)
         \o DumpItems(Tail(xs))

\* json.dumps(all_results, indent=4, ensure_ascii=False)
Dumps(xs) == << "[" >> \o DumpItems(xs) \o << "]" >>

(***************************************************************************)
(* File names and get_unique_filename.                                     *)
(***************************************************************************)
\* f"{base_name}{extension}" has no suffix; f"{base_name}_{counter}{extension}"
\* has suffix <<counter>>
PlainName(base, ext) == [base |-> base, suffix |-> << >>, ext |-> ext]
NumberedName(base, counter, ext) == [base |-> base, suffix |-> << counter >>, ext |-> ext]

RECURSIVE Probe(_, _, _, _, _)
Probe(existing, new_filename, counter, base, ext) ==
    IF new_filename \in existing
    THEN Probe(existing, NumberedName(base, counter, ext), counter + 1, base, ext)
    ELSE new_filename

\* get_unique_filename(base_name, extension=".json") on a file system where
\* exactly the paths of `existing` exist
GetUniqueFilename_NoProbe(existing, base) == PlainName(base, ".json")

GetUniqueFilename(existing, base) ==
    Probe(existing, PlainName(base, ".json"), 1, base, ".json")

(***************************************************************************)
(* Exceptions: the classes the program can meet and `except Exception`.    *)
(***************************************************************************)
\* the direct base class of each exception class
ExcBase(cls) ==
    CASE cls = "JSONDecodeError" -> "ValueError"
      [] cls = "ConnectionError" -> "OSError"
      [] cls = "Exception"       -> "BaseException"
      [] cls = "BaseException"   -> "object"
      [] OTHER                   -> "Exception"

RECURSIVE IsInstance(_, _)
IsInstance(exc, cls) ==
    IF exc = cls THEN TRUE
    ELSE IF exc \in {"object", "none"} THEN FALSE
    ELSE IsInstance(ExcBase(exc), cls)

\* the top-level handlers: `except Exception as e` (api_omie.py line 137,
\* app.py line 133)
TopLevelCatches_ValueErrorOnly(exc) == IsInstance(exc, "ValueError")

TopLevelCatches(exc) == IsInstance(exc, "Exception")

(***************************************************************************)
(* Credentials and texts.  A text is a sequence of characters; a           *)
(* credential pair is <<key, secret>>; None is << >>.                      *)
(***************************************************************************)
None == << >>
Key1 == << "k", "1" >>
Secret1 == << "s", "1" >>
Key2 == << "k", "2" >>
Secret2 == << "s", "2" >>
CredPairs == { << Key1, Secret1 >>, << Key2, Secret2 >> }

\* get_credentials(): cfg is what config.py holds (None when it has no
\* app_key), change is the answer to "Would you like to change them?",
\* typed is what update_config_credentials reads from the prompt
GetCredentials(cfg, change, typed) ==
    IF cfg # None
    THEN IF change \in {"y", "Y"} THEN typed ELSE cfg
    ELSE typed

\* what config.py holds after get_credentials(): update_config_credentials
\* appends the typed pair, and the later assignment wins at the next import
ConfigAfterGetCredentials(cfg, change, typed) ==
    IF cfg # None /\ change \notin {"y", "Y"} THEN cfg ELSE typed

(***************************************************************************)
(* api_omie(call, page, credentials), in two halves: up to the POST, and   *)
(* from the HTTP outcome to the return.                                    *)
(***************************************************************************)
NoRequest ==
    [url |-> "", call |-> "", app_key |-> << >>, app_secret |-> << >>,
     pagina |-> 0, registros_por_pagina |-> 0]

\* lines 55-78: look the URL up, build the body, POST it
ApiOmieRequest_FirstPage(call, page, creds) ==
    LET API_URL == CalltypeGet(call)
    IN  IF API_URL = << >> \/ API_URL[1] = ""
        THEN [raise |-> "ValueError", request |-> NoRequest]
        ELSE [raise |-> "none",
              request |-> [url |-> API_URL[1], call |-> call,
                           app_key |-> creds[1], app_secret |-> creds[2],
                           pagina |-> 1,
                           registros_por_pagina |-> PageSize]]

ApiOmieRequest(call, page, creds) ==
    LET API_URL == CalltypeGet(call)
    IN  IF API_URL = << >> \/ API_URL[1] = ""
        THEN [raise |-> "ValueError", request |-> NoRequest]
        ELSE [raise |-> "none",
              request |-> [url |-> API_URL[1], call |-> call,
                           app_key |-> creds[1], app_secret |-> creds[2],
                           pagina |-> page,
                           registros_por_pagina |-> PageSize]]

\* lines 78-84: requests.post raises on a transport failure; a status other
\* than 200 returns None; otherwise response.json()
ApiOmieResult_ParseErrorAsNone(o) ==
    IF o.err # "none" THEN [raise |-> o.err, value |-> PyNone]
    ELSE IF o.status_code # HttpOk THEN [raise |-> "none", value |-> PyNone]
    ELSE [raise |-> "none", value |-> Loads(o.body).val]

ApiOmieResult_RaiseForStatus(o) ==
    IF o.err # "none" THEN [raise |-> o.err, value |-> PyNone]
    ELSE IF o.status_code # HttpOk THEN [raise |-> "ConnectionError", value |-> PyNone]
    ELSE LET r == Loads(o.body)
         IN  IF r.ok THEN [raise |-> "none", value |-> r.val]
             ELSE [raise |-> "JSONDecodeError", value |-> PyNone]

ApiOmieResult(o) ==
    IF o.err # "none" THEN [raise |-> o.err, value |-> PyNone]
    ELSE IF o.status_code # HttpOk THEN [raise |-> "none", value |-> PyNone]
    ELSE LET r == Loads(o.body)
         IN  IF r.ok THEN [raise |-> "none", value |-> r.val]
             ELSE [raise |-> "JSONDecodeError", value |-> PyNone]

(***************************************************************************)
(* One pass of the loop body after api_omie has returned `result`          *)
(* (api_omie.py lines 107-118, app.py lines 108-120).                      *)
(*   again: the loop goes on to the next page                              *)
(*   raise: the exception the pass raises ("none" when it raises none)     *)
(***************************************************************************)
\* current_page >= total_pages
LastPage_Strict(page, total) == page > total

LastPage(page, total) == page >= total

LoopPass_Unit(raise, results, page, total, again) ==
    [raise |-> raise, all_results |-> results, current_page |-> page,
     total_pages |-> total, again |-> again]

LoopPass_Prepend(result, results, page) ==
    IF ~ Truthy(result)
    THEN LoopPass_Unit("none", results, page, 0, FALSE)
    ELSE LET appended == << result >> \o results
         IN  IF result.type # "dict"
             THEN LoopPass_Unit("AttributeError", appended, page, 0, FALSE)
             ELSE LET total_pages == DictGet(result, "total_de_paginas", PyInt(0))
                  IN  IF total_pages.type # "int"
                      THEN LoopPass_Unit("TypeError", appended, page, 0, FALSE)
                      ELSE IF LastPage(page, total_pages.n)
                      THEN LoopPass_Unit("none", appended, page, total_pages.n, FALSE)
                      ELSE LoopPass_Unit("none", appended, page + 1, total_pages.n, TRUE)

LoopPass_ZeroTotalDropped(result, results, page) ==
    IF ~ Truthy(result)
    THEN LoopPass_Unit("none", results, page, 0, FALSE)
    ELSE IF result.type # "dict"
    THEN LoopPass_Unit("AttributeError", Append(results, result), page, 0, FALSE)
    ELSE LET total_pages == DictGet(result, "total_de_paginas", PyInt(0))
         IN  IF total_pages.type # "int"
             THEN LoopPass_Unit("TypeError", Append(results, result), page, 0, FALSE)
             ELSE IF total_pages.n = 0
             THEN LoopPass_Unit("none", results, page, 0, FALSE)
             ELSE IF LastPage(page, total_pages.n)
             THEN LoopPass_Unit("none", Append(results, result), page,
                                total_pages.n, FALSE)
             ELSE LoopPass_Unit("none", Append(results, result), page + 1,
                                total_pages.n, TRUE)

LoopPass(result, results, page) ==
    IF ~ Truthy(result)
    THEN LoopPass_Unit("none", results, page, 0, FALSE)
    ELSE LET appended == Append(results, result)
         IN  IF result.type # "dict"
             THEN LoopPass_Unit("AttributeError", appended, page, 0, FALSE)
             ELSE LET total_pages == DictGet(result, "total_de_paginas", PyInt(0))
                  IN  IF total_pages.type # "int"
                      THEN LoopPass_Unit("TypeError", appended, page, 0, FALSE)
                      ELSE IF LastPage(page, total_pages.n)
                      THEN LoopPass_Unit("none", appended, page, total_pages.n, FALSE)
                      ELSE LoopPass_Unit("none", appended, page + 1, total_pages.n, TRUE)

\* api_omie's result followed by the loop body: an exception of api_omie
\* leaves the loop before the body runs
Iteration(o, results, page) ==
    LET r == ApiOmieResult(o)
    IN  IF r.raise # "none"
        THEN LoopPass_Unit(r.raise, results, page, 0, FALSE)
        ELSE LoopPass(r.value, results, page)

(***************************************************************************)
(* The environment: what the server can answer to one POST, what the user  *)
(* can type, which files can exist at the start.                           *)
(***************************************************************************)
ObjBody(t, p) ==
    << "{", "total_de_paginas", ":", IntToStr(t), ",", "payload", ":", p, "}" >>

ServerBodies ==
    { ObjBody(t, "a") : t \in 0..MaxTotal }
    \cup { << "{", "payload", ":", "a", "}" >>,
           << "{", "total_de_paginas", ":", "x", ",", "payload", ":", "a", "}" >>,
           << "null" >>, << "{", "}" >>, << "[", "1", "]" >>,
           << "{", "total_de_paginas", ":" >> }

NetOutcomes ==
    { [err |-> "none", status_code |-> HttpOk, body |-> b] : b \in ServerBodies }
    \cup { [err |-> "none", status_code |-> 500, body |-> << "<html>" >>],
           [err |-> "ConnectionError", status_code |-> 0, body |-> << >>] }

\* what the user types at "Enter the number of your selection: "
SelectionInputs ==
    { [numeric |-> TRUE, n |-> k] : k \in 0..(Len(CallNames) + 1) }
    \cup { [numeric |-> FALSE, n |-> 0] }

\* the names a caller hands to api_omie directly
CallInputs == { CallNames[1], CallNames[Len(CallNames)], "ListarPedidos", "" }

\* what the user types into the key and secret fields
TypedPairs ==
    { << << " " >> \o Key2, Secret2 \o << " " >> >>, << << " " >>, Secret1 >> }

\* str.strip()
RECURSIVE Strip(_)
Strip(t) ==
    IF t = << >> THEN t
    ELSE IF Head(t) = " " THEN Strip(Tail(t))
    ELSE IF t[Len(t)] = " " THEN Strip(SubSeq(t, 1, Len(t) - 1))
    ELSE t

\* the i-th name get_unique_filename("response") tries
NameAt(i) ==
    IF i = 0 THEN PlainName("response", ".json")
    ELSE NumberedName("response", i, ".json")

InitialFileSets == SUBSET { NameAt(i) : i \in 0..MaxExisting }

OldContent == << "old" >>

(***************************************************************************)
(* Credential profiles and the profile dropdown (app.py lines 459-545).    *)
(* A profile is [key, secret]; saved_profiles is a function from the names *)
(* saved to their profiles (the empty function << >> when there are none). *)
(***************************************************************************)
\* the first item of the dropdown
Placeholder == "-- Select Profile --"

\* the profile names of the model, in the order sorted() puts them
NameOrder == << "-- Select Profile --", "p" >>

Sorted(names) == SelectSeq(NameOrder, LAMBDA n : n \in names)

\* the items update_profile_dropdown leaves in the dropdown
DropdownItems(profiles) == << Placeholder >> \o Sorted(DOMAIN profiles)

\* QComboBox.currentText(): empty when no item is current (index -1)
CurrentText(combo) ==
    IF combo.index >= 0 /\ combo.index < Len(combo.items)
    THEN combo.items[combo.index + 1]
    ELSE ""

\* QComboBox.findText(text): the index of the first item with that text, or -1
FindText(items, text) ==
    LET hits == { i \in 1..Len(items) : items[i] = text }
    IN  IF hits = {} THEN -1
        ELSE (CHOOSE i \in hits : \A j \in hits : i <= j) - 1

\* the part of the window load_selected_profile writes
Window(creds, key, secret) ==
    [credentials |-> creds, key_input |-> key, secret_input |-> secret]

\* load_selected_profile with profile_name = profile_combo.currentText()
LoadSelectedProfile(profile_name, profiles, w) ==
    IF profile_name = Placeholder THEN w
    ELSE IF profile_name \in DOMAIN profiles
    THEN Window(<< profiles[profile_name].key, profiles[profile_name].secret >>,
                profiles[profile_name].key, profiles[profile_name].secret)
    ELSE w

\* QComboBox.setCurrentIndex(index), by the program or by the user picking
\* an item: currentIndexChanged, connected to load_selected_profile, is
\* emitted only when the index changes
SetCurrentIndex(combo, index, profiles, w) ==
    IF index = combo.index
    THEN [combo |-> combo, window |-> w]
    ELSE LET moved == [combo EXCEPT !.index = index]
         IN  [combo |-> moved,
              window |-> LoadSelectedProfile(CurrentText(moved), profiles, w)]

\* update_profile_dropdown: clear() makes no item current, the first
\* addItem makes the placeholder current, and both emit currentIndexChanged
UpdateProfileDropdown(profiles, combo, w) ==
    LET cleared == SetCurrentIndex([items |-> << >>, index |-> combo.index],
                                   -1, profiles, w)
    IN  SetCurrentIndex([items |-> DropdownItems(profiles), index |-> -1],
                        0, profiles, cleared.window)

\* save_profiles: json.dump into credentials.json; a failure is printed and
\* leaves the file as it was
SaveProfiles(profiles, file, disk_ok) == IF disk_ok THEN << profiles >> ELSE file

\* dict with one more key, or with the value of an existing key replaced
DictSet(profiles, name, profile) ==
    [n \in DOMAIN profiles \cup {name} |->
        IF n = name THEN profile ELSE profiles[n]]

\* del dict[name]
DictDel(profiles, name) == [n \in DOMAIN profiles \ {name} |-> profiles[n]]

\* what QInputDialog.getText returns: (text, ok)
NameInputs ==
    { [text |-> "p", ok |-> TRUE], [text |-> Placeholder, ok |-> TRUE],
      [text |-> "", ok |-> TRUE], [text |-> "p", ok |-> FALSE] }

\* whether credentials.json can be written: in this model it can
ProfileDisk == { TRUE }

\* credentials.json at the start of the application
ProfileFiles == { None, << [p \in {"p"} |-> [key |-> Key1, secret |-> Secret1]] >> }

(***************************************************************************)
(* State.                                                                  *)
(***************************************************************************)
VARIABLES
    frontend,        \* "cli": python api_omie.py; "gui": python app.py;
                     \* "lib": a caller of api_omie()
    fs,              \* the working directory: file name -> content
    config_creds,    \* app_key, app_secret of config.py (None when absent)
    pc,              \* where the thread that runs the fetch loop is
    run_call,        \* selected_call / ApiWorker.call_type
    run_credentials, \* credentials / ApiWorker.credentials
    all_results,     \* all_results
    current_page,    \* current_page
    requests,        \* the POSTs of this run, in order
    outcomes,        \* what came back for each of them
    console,         \* what was printed (stdout; the worker's capture buffer)
    escaped,         \* the exception that left the top level ("none" if none)
    returned,        \* lib: what api_omie returned
    run_files,       \* the files this run has written, in order
    write_failed,    \* this run's open() for writing raised OSError
    credentials,     \* OmieApp.credentials
    call_type_combo, \* OmieApp.call_type_combo.currentText()
    execute_btn,     \* OmieApp.execute_btn.isEnabled()
    save_btn,        \* OmieApp.save_btn.isEnabled()
    output_file,     \* OmieApp.output_file (None or <<name>>)
    results_text,    \* what OmieApp.results_text shows
    signals,         \* emitted by the worker, not yet delivered
    emitted,         \* every signal the worker of this run has emitted
    runs,            \* how many workers were started
    stale,           \* capture buffers of replaced workers still to be logged
    app_state,       \* "running", or "aborted" once the process died
    key_input,       \* OmieApp.key_input.text()
    secret_input,    \* OmieApp.secret_input.text()
    saved_profiles,  \* OmieApp.saved_profiles: profile name -> [key, secret]
    profile_combo,   \* OmieApp.profile_combo: its items and currentIndex()
    credentials_file \* credentials.json (None when absent)

loopVars == << pc, run_call, run_credentials, all_results, current_page,
               requests, outcomes, console, escaped >>
guiVars == << credentials, call_type_combo, execute_btn, save_btn, output_file,
              results_text, signals, emitted, runs, stale, app_state >>
fieldVars == << key_input, secret_input >>
profileVars == << saved_profiles, profile_combo, credentials_file >>
vars == << frontend, fs, config_creds, returned, run_files, write_failed,
           loopVars, guiVars, fieldVars, profileVars >>

InLoop == pc \in {"request", "await"}

\* load_saved_profiles: the profiles of credentials.json, none when the file
\* is absent
LoadSavedProfiles(file) == IF file = None THEN << >> ELSE file[1]

\* the state after construction: `python api_omie.py` at its first line, a
\* caller about to call api_omie, or OmieApp.__init__ with initUI and
\* load_credentials_from_config done
InitFrom(front, existing, cfg, file) ==
    /\ frontend = front
    /\ fs = [f \in existing |-> OldContent]
    /\ config_creds = cfg
    /\ pc = CASE front = "cli" -> "creds"
              [] front = "gui" -> "idle"
              [] front = "lib" -> "call"
    /\ run_call = ""
    /\ run_credentials = None
    /\ all_results = << >>
    /\ current_page = 0
    /\ requests = << >>
    /\ outcomes = << >>
    /\ console = {}
    /\ escaped = "none"
    /\ returned = PyNone
    /\ run_files = << >>
    /\ write_failed = FALSE
    /\ credentials = IF front = "gui" THEN cfg ELSE None
    /\ call_type_combo = IF front = "gui" THEN CallNames[1] ELSE ""
    /\ execute_btn = (front = "gui")
    /\ save_btn = FALSE
    /\ output_file = None
    /\ results_text = << >>
    /\ signals = << >>
    /\ emitted = << >>
    /\ runs = 0
    /\ stale = << >>
    /\ app_state = "running"
    /\ key_input = IF front = "gui" /\ cfg # None THEN cfg[1] ELSE << >>
    /\ secret_input = IF front = "gui" /\ cfg # None THEN cfg[2] ELSE << >>
    /\ credentials_file = file
    /\ saved_profiles = IF front = "gui" THEN LoadSavedProfiles(file) ELSE << >>
    /\ profile_combo = IF front = "gui"
                       THEN [items |-> DropdownItems(LoadSavedProfiles(file)),
                             index |-> 0]
                       ELSE [items |-> << >>, index |-> -1]

Init ==
    \E front \in {"cli", "gui", "lib"}, existing \in InitialFileSets,
       cfg \in {None, << Key1, Secret1 >>} :
        InitFrom(front, existing, cfg, None)

(***************************************************************************)
(* Writing the output file (api_omie.py lines 123-129, app.py lines        *)
(* 636-646).                                                               *)
(***************************************************************************)
\* the file system after open(get_unique_filename("response"), "w") and
\* f.write(json.dumps(all_results))
SaveResponse(fsys, results) ==
    LET name == GetUniqueFilename(DOMAIN fsys, "response")
    IN  [f \in DOMAIN fsys \cup {name} |->
            IF f = name THEN Dumps(results) ELSE fsys[f]]

\* api_omie.py line 121, reached only once the while loop is left
WritesNow_EveryPage(again, results) == results # << >>

WritesNow(again, results) == ~ again /\ results # << >>

\* "Error: <status>" printed by api_omie (line 81)
Printed(o) ==
    IF o.err = "none" /\ o.status_code # HttpOk THEN {"Error: status"} ELSE {}

(***************************************************************************)
(* select_call_type(): one pass of its `while True`.                       *)
(***************************************************************************)
SelectCallType(inp) ==
    IF ~ inp.numeric
    THEN [returns |-> FALSE, value |-> "", printed |-> "Please enter a valid number."]
    ELSE IF 1 <= inp.n /\ inp.n <= Len(CallNames)
    THEN [returns |-> TRUE, value |-> CallNames[inp.n], printed |-> ""]
    ELSE [returns |-> FALSE, value |-> "",
          printed |-> "Invalid selection. Please enter a valid number."]

(***************************************************************************)
(* The command line program (api_omie.py, `if __name__ == "__main__"`).    *)
(***************************************************************************)
\* line 97: credentials = get_credentials()
CliGetCredentials ==
    /\ frontend = "cli" /\ pc = "creds"
    /\ \E change \in {"y", "n"}, typed \in CredPairs :
          /\ run_credentials' = GetCredentials(config_creds, change, typed)
          /\ config_creds' = ConfigAfterGetCredentials(config_creds, change, typed)
    /\ pc' = "select"
    /\ UNCHANGED << frontend, fieldVars, profileVars, fs, returned, run_files, write_failed, run_call,
                    all_results, current_page, requests, outcomes, console,
                    escaped, guiVars >>

\* line 100: one prompt of select_call_type(); lines 102-103 once it returns
CliSelectCallType ==
    /\ frontend = "cli" /\ pc = "select"
    /\ \E inp \in SelectionInputs :
          LET r == SelectCallType(inp)
          IN  IF r.returns
              THEN /\ run_call' = r.value
                   /\ all_results' = << >>
                   /\ current_page' = 1
                   /\ pc' = "request"
                   /\ UNCHANGED console
              ELSE /\ console' = console \cup {r.printed}
                   /\ UNCHANGED << run_call, all_results, current_page, pc >>
    /\ UNCHANGED << frontend, fieldVars, profileVars, fs, config_creds, returned, run_files, write_failed,
                    run_credentials, requests, outcomes, escaped, guiVars >>

\* lines 137-138: `except Exception as e: print(...)`; anything else leaves
\* the program
CliHandler(exc, printed) ==
    /\ pc' = "done"
    /\ IF TopLevelCatches(exc)
       THEN /\ console' = printed \cup {"An error occurred"}
            /\ escaped' = "none"
       ELSE /\ console' = printed
            /\ escaped' = exc

\* line 106 up to the POST inside api_omie
CliRequest ==
    /\ frontend = "cli" /\ pc = "request"
    /\ LET r == ApiOmieRequest(run_call, current_page, run_credentials)
       IN  IF r.raise # "none"
           THEN /\ CliHandler(r.raise, console)
                /\ UNCHANGED requests
           ELSE /\ requests' = Append(requests, r.request)
                /\ pc' = "await"
                /\ UNCHANGED << console, escaped >>
    /\ UNCHANGED << frontend, fieldVars, profileVars, fs, config_creds, returned, run_files, write_failed,
                    run_call, run_credentials, all_results, current_page,
                    outcomes, guiVars >>

\* from the HTTP outcome to the next POST, or through the write to the end
CliAfter(o, disk_ok, it, out, saves) ==
    /\ outcomes' = Append(outcomes, o)
    /\ all_results' = it.all_results
    /\ current_page' = it.current_page
    /\ IF saves /\ disk_ok
       THEN /\ fs' = SaveResponse(fs, it.all_results)
            /\ run_files' = Append(run_files,
                                   GetUniqueFilename(DOMAIN fs, "response"))
       ELSE UNCHANGED << fs, run_files >>
    /\ write_failed' = (saves /\ ~ disk_ok)
    /\ IF it.raise # "none" THEN CliHandler(it.raise, out)
       ELSE IF saves /\ ~ disk_ok THEN CliHandler("OSError", out)
       ELSE IF it.again
       THEN /\ pc' = "request"
            /\ console' = out \cup {"Fetching page"}
            /\ UNCHANGED escaped
       ELSE /\ pc' = "done"
            /\ console' = out \cup {"Execution completed"}
                              \cup (IF saves THEN {"Response saved"} ELSE {})
            /\ UNCHANGED escaped

CliStep(o, disk_ok, it) ==
    CliAfter(o, disk_ok, it, console \cup Printed(o),
             it.raise = "none" /\ WritesNow(it.again, it.all_results))

CliResponse ==
    /\ frontend = "cli" /\ pc = "await"
    /\ \E o \in NetOutcomes, disk_ok \in BOOLEAN :
          CliStep(o, disk_ok, Iteration(o, all_results, current_page))
    /\ UNCHANGED << frontend, fieldVars, profileVars, config_creds, returned, run_call, run_credentials,
                    requests, guiVars >>

(***************************************************************************)
(* A direct caller of api_omie(call, page, credentials).                   *)
(***************************************************************************)
\* lines 50-78; with credentials=None api_omie asks get_credentials()
LibCall ==
    /\ frontend = "lib" /\ pc = "call"
    /\ \E call \in CallInputs, page \in 1..MaxTotal, given \in CredPairs \cup {None},
          change \in {"y", "n"}, typed \in CredPairs :
          LET creds == IF given = None
                       THEN GetCredentials(config_creds, change, typed)
                       ELSE given
              r == ApiOmieRequest(call, page, creds)
          IN  /\ run_call' = call
              /\ current_page' = page
              /\ run_credentials' = creds
              /\ config_creds' = IF given = None
                                 THEN ConfigAfterGetCredentials(config_creds, change, typed)
                                 ELSE config_creds
              /\ IF r.raise # "none"
                 THEN /\ escaped' = r.raise
                      /\ pc' = "done"
                      /\ UNCHANGED requests
                 ELSE /\ requests' = Append(requests, r.request)
                      /\ pc' = "await"
                      /\ UNCHANGED escaped
    /\ UNCHANGED << frontend, fieldVars, profileVars, fs, returned, run_files, write_failed, all_results,
                    outcomes, console, guiVars >>

\* lines 78-84
LibReturn ==
    /\ frontend = "lib" /\ pc = "await"
    /\ \E o \in NetOutcomes :
          LET r == ApiOmieResult(o)
          IN  /\ outcomes' = Append(outcomes, o)
              /\ console' = console \cup Printed(o)
              /\ returned' = r.value
              /\ escaped' = r.raise
    /\ pc' = "done"
    /\ UNCHANGED << frontend, fieldVars, profileVars, fs, config_creds, run_files, write_failed, run_call,
                    run_credentials, all_results, current_page, requests, guiVars >>

(***************************************************************************)
(* The Qt application (app.py): ApiWorker on its own thread, OmieApp's     *)
(* slots on the main thread.  A signal emitted by the worker is queued and *)
(* delivered to its slot later, in emission order.                         *)
(***************************************************************************)
SigProgress(page, total) ==
    [sig |-> "update_progress", results |-> << >>, msg |-> << >>,
     page |-> page, total |-> total]
SigFinished(results) ==
    [sig |-> "finished", results |-> results, msg |-> << >>, page |-> 0, total |-> 0]
SigError(msg) ==
    [sig |-> "error", results |-> << >>, msg |-> msg, page |-> 0, total |-> 0]
SigLog(text) ==
    [sig |-> "log_output", results |-> << >>, msg |-> text, page |-> 0, total |-> 0]

EmptyResponse == "Empty response - No data returned from API"

\* the capture buffer as log text: one line per thing printed
LogText(printed) == IF printed = {} THEN << >> ELSE << "Error: status" >>

\* app.py lines 122-131: what run() emits once the loop is left normally
OutcomeSignals_FinishedAlways(results, printed) ==
    << SigLog(LogText(printed)), SigFinished(results) >>

OutcomeSignals_EmptyIsSilent(results, printed) ==
    << SigLog(LogText(printed)) >>
    \o (IF results # << >> THEN << SigFinished(results) >> ELSE << >>)

OutcomeSignals(results, printed) ==
    << SigLog(LogText(printed)),
       IF results # << >> THEN SigFinished(results)
       ELSE SigError(<< EmptyResponse >>) >>

\* app.py lines 133-135: f"{str(e)}\n\n{traceback.format_exc()}"
ExceptionSignal(exc) == SigError(<< exc, "traceback" >>)

\* what the two fields hold when a button that reads them is clicked: what
\* the user has just typed, or what they held before
FieldTexts == TypedPairs \cup { << key_input, secret_input >> }

\* apply_credentials
ApplyCredentials ==
    /\ frontend = "gui" /\ app_state = "running"
    /\ \E typed \in FieldTexts :
          LET key == Strip(typed[1])
              secret == Strip(typed[2])
          IN  /\ key_input' = typed[1]
              /\ secret_input' = typed[2]
              /\ IF key = << >> \/ secret = << >>
                 THEN UNCHANGED credentials
                 ELSE credentials' = << key, secret >>
    /\ UNCHANGED << frontend, profileVars, fs, config_creds, returned, run_files,
                    write_failed, loopVars, call_type_combo, execute_btn, save_btn,
                    output_file, results_text, signals, emitted, runs, stale,
                    app_state >>

\* app.py lines 589-590: both buttons are disabled before the worker starts
ButtonsWhileRunning_ExecuteLeftOn(execute, save) ==
    [execute_btn |-> execute, save_btn |-> FALSE]

ButtonsWhileRunning_SaveLeftOn(execute, save) ==
    [execute_btn |-> FALSE, save_btn |-> save]

ButtonsWhileRunning(execute, save) == [execute_btn |-> FALSE, save_btn |-> FALSE]

\* execute_api_call, the slot of the Execute button, which only an enabled
\* button fires; ApiWorker.__init__ and the lines of run() before the loop
ExecuteApiCallUpTo(max_runs) ==
    /\ frontend = "gui" /\ app_state = "running"
    /\ execute_btn
    /\ runs < max_runs
    /\ IF credentials = None
       THEN /\ results_text' = << "Missing credentials. Please set your credentials first." >>
            /\ UNCHANGED << loopVars, run_files, write_failed, execute_btn, save_btn,
                            emitted, runs, stale >>
       ELSE /\ execute_btn' = ButtonsWhileRunning(execute_btn, save_btn).execute_btn
            /\ save_btn' = ButtonsWhileRunning(execute_btn, save_btn).save_btn
            /\ results_text' = << >>
            /\ run_call' = call_type_combo
            /\ run_credentials' = credentials
            /\ all_results' = << >>
            /\ current_page' = 1
            /\ requests' = << >>
            /\ outcomes' = << >>
            /\ console' = {}
            /\ escaped' = "none"
            /\ pc' = "request"
            /\ run_files' = << >>
            /\ write_failed' = FALSE
            /\ emitted' = << >>
            /\ runs' = runs + 1
            \* a worker still inside its except block keeps running
            /\ stale' = IF pc = "except" THEN Append(stale, console) ELSE stale
    /\ UNCHANGED << frontend, fieldVars, profileVars, fs, config_creds, returned, credentials,
                    call_type_combo, output_file, signals, app_state >>

ExecuteApiCall == ExecuteApiCallUpTo(MaxRuns)

\* app.py lines 133-135: `except Exception as e` of run(); an exception that
\* is none leaves run() and ends the process
WorkerHandler(exc, queued, sent) ==
    IF TopLevelCatches(exc)
    THEN /\ signals' = Append(queued, ExceptionSignal(exc))
         /\ emitted' = Append(sent, ExceptionSignal(exc))
         /\ pc' = "except"
         /\ UNCHANGED << escaped, app_state >>
    ELSE /\ signals' = queued
         /\ emitted' = sent
         /\ pc' = "done"
         /\ escaped' = exc
         /\ app_state' = "aborted"

\* app.py line 107: call=self.call_type, credentials=self.credentials are
\* the worker's own fields, set by __init__ (lines 93-94), not the window's
WorkerArgs_FromWindow(own_call, own_credentials, window_call, window_credentials) ==
    [call |-> window_call, credentials |-> window_credentials]

WorkerArgs(own_call, own_credentials, window_call, window_credentials) ==
    [call |-> own_call, credentials |-> own_credentials]

\* app.py line 107 up to the POST inside api_omie
WorkerRequest ==
    /\ frontend = "gui" /\ app_state = "running" /\ pc = "request"
    /\ LET a == WorkerArgs(run_call, run_credentials, call_type_combo, credentials)
           r == ApiOmieRequest(a.call, current_page, a.credentials)
       IN  IF r.raise # "none"
           THEN /\ WorkerHandler(r.raise, signals, emitted)
                /\ UNCHANGED requests
           ELSE /\ requests' = Append(requests, r.request)
                /\ pc' = "await"
                /\ UNCHANGED << escaped, signals, emitted, app_state >>
    /\ UNCHANGED << frontend, fieldVars, profileVars, fs, config_creds, returned, run_files, write_failed,
                    run_call, run_credentials, all_results, current_page, outcomes,
                    console, credentials, call_type_combo, execute_btn, save_btn,
                    output_file, results_text, runs, stale >>

\* from the HTTP outcome to the next POST, or to the signals that end run()
WorkerAfter(o, it, out, progress) ==
    /\ outcomes' = Append(outcomes, o)
    /\ all_results' = it.all_results
    /\ current_page' = it.current_page
    /\ console' = out
    /\ IF it.raise # "none"
       THEN WorkerHandler(it.raise, signals, emitted)
       ELSE IF it.again
       THEN /\ pc' = "request"
            /\ signals' = signals \o progress
            /\ emitted' = emitted \o progress
            /\ UNCHANGED << escaped, app_state >>
       ELSE /\ pc' = "done"
            /\ signals' = signals \o progress \o OutcomeSignals(it.all_results, out)
            /\ emitted' = emitted \o progress \o OutcomeSignals(it.all_results, out)
            /\ UNCHANGED << escaped, app_state >>

\* line 115: update_progress is emitted once the page has been appended and
\* its total read
WorkerStep(o, it) ==
    WorkerAfter(o, it, console \cup Printed(o),
                IF it.raise = "none" /\ Len(it.all_results) > Len(all_results)
                THEN << SigProgress(current_page, it.total_pages) >>
                ELSE << >>)

WorkerResponseOn(outs) ==
    /\ frontend = "gui" /\ app_state = "running" /\ pc = "await"
    /\ \E o \in outs : WorkerStep(o, Iteration(o, all_results, current_page))
    /\ UNCHANGED << frontend, fieldVars, profileVars, fs, config_creds, returned, run_files, write_failed,
                    run_call, run_credentials, requests, credentials,
                    call_type_combo, execute_btn, save_btn, output_file,
                    results_text, runs, stale >>

WorkerResponse == WorkerResponseOn(NetOutcomes)

\* app.py lines 137-139: the except block still emits the captured output
WorkerExceptLog ==
    /\ frontend = "gui" /\ app_state = "running" /\ pc = "except"
    /\ signals' = Append(signals, SigLog(LogText(console)))
    /\ emitted' = Append(emitted, SigLog(LogText(console)))
    /\ pc' = "done"
    /\ UNCHANGED << frontend, fieldVars, profileVars, fs, config_creds, returned, run_files, write_failed,
                    run_call, run_credentials, all_results, current_page, requests,
                    outcomes, console, escaped, credentials, call_type_combo,
                    execute_btn, save_btn, output_file, results_text, runs, stale,
                    app_state >>

\* the same lines, run by a worker that execute_api_call has since replaced
StaleWorkerExceptLog ==
    /\ frontend = "gui" /\ app_state = "running" /\ stale # << >>
    /\ signals' = Append(signals, SigLog(LogText(Head(stale))))
    /\ stale' = Tail(stale)
    /\ UNCHANGED << frontend, fieldVars, profileVars, fs, config_creds, returned, run_files, write_failed,
                    loopVars, credentials, call_type_combo, execute_btn, save_btn,
                    output_file, results_text, emitted, runs, app_state >>

Delivered(name) ==
    /\ frontend = "gui" /\ app_state = "running"
    /\ signals # << >> /\ Head(signals).sig = name
    /\ signals' = Tail(signals)

\* update_progress(current_page, total_pages): moves the progress bar
UpdateProgress ==
    /\ Delivered("update_progress")
    /\ UNCHANGED << frontend, fieldVars, profileVars, fs, config_creds, returned, run_files, write_failed,
                    loopVars, credentials, call_type_combo, execute_btn, save_btn,
                    output_file, results_text, emitted, runs, stale, app_state >>

\* handle_log_output(log_text): appends to the log tab
HandleLogOutput ==
    /\ Delivered("log_output")
    /\ UNCHANGED << frontend, fieldVars, profileVars, fs, config_creds, returned, run_files, write_failed,
                    loopVars, credentials, call_type_combo, execute_btn, save_btn,
                    output_file, results_text, emitted, runs, stale, app_state >>

\* process_results(all_results); an OSError of open() leaves the slot at
\* line 645: Qt either reports it and goes on, or ends the process
ProcessResults ==
    /\ Delivered("finished")
    /\ \E disk_ok \in BOOLEAN, survives \in BOOLEAN :
          LET got == Head(signals).results
              name == GetUniqueFilename(DOMAIN fs, "response")
          IN  IF got # << >>
              THEN /\ results_text' = << "preview" >>
                   /\ output_file' = << name >>
                   /\ IF disk_ok
                      THEN /\ fs' = SaveResponse(fs, got)
                           /\ run_files' = Append(run_files, name)
                           /\ save_btn' = TRUE
                           /\ execute_btn' = TRUE
                           /\ UNCHANGED << write_failed, app_state >>
                      ELSE /\ write_failed' = TRUE
                           /\ app_state' = IF survives THEN "running" ELSE "aborted"
                           /\ UNCHANGED << fs, run_files, save_btn, execute_btn >>
              ELSE /\ results_text' = << "ERROR: No data returned from API" >>
                   /\ execute_btn' = TRUE
                   /\ UNCHANGED << fs, run_files, save_btn, output_file,
                                   write_failed, app_state >>
    /\ UNCHANGED << frontend, fieldVars, profileVars, config_creds, returned, loopVars, credentials,
                    call_type_combo, emitted, runs, stale >>

\* handle_error(error_msg)
HandleError ==
    /\ Delivered("error")
    /\ results_text' = << "ERROR", "Details:" >> \o Head(signals).msg
    /\ execute_btn' = TRUE
    /\ UNCHANGED << frontend, fieldVars, profileVars, fs, config_creds, returned, run_files, write_failed,
                    loopVars, credentials, call_type_combo, save_btn, output_file,
                    emitted, runs, stale, app_state >>

Next ==
    \/ CliGetCredentials
    \/ CliSelectCallType
    \/ CliRequest
    \/ CliResponse
    \/ LibCall
    \/ LibReturn
    \/ ApplyCredentials
    \/ ExecuteApiCall
    \/ WorkerRequest
    \/ WorkerResponse
    \/ WorkerExceptLog
    \/ StaleWorkerExceptLog
    \/ UpdateProgress
    \/ HandleLogOutput
    \/ ProcessResults
    \/ HandleError

Spec == Init /\ [][Next]_vars

(***************************************************************************)
(* The same program with its threads scheduled and its requests answered:  *)
(* the thread that runs the loop is not starved, and requests.post always  *)
(* returns or raises.                                                      *)
(***************************************************************************)
LiveInit ==
    \E front \in {"cli", "gui", "lib"}, cfg \in {None, << Key1, Secret1 >>} :
        InitFrom(front, {}, cfg, None)

LiveSpec ==
    /\ LiveInit
    /\ [][Next]_vars
    /\ WF_vars(CliRequest)
    /\ WF_vars(CliResponse)
    /\ WF_vars(WorkerRequest)
    /\ WF_vars(WorkerResponse)

(***************************************************************************)
(* The profile section and the call type dropdown of the window.  They are *)
(* part of a second specification, of the Qt application alone, against a  *)
(* server that answers with one of GuiOutcomes.                            *)
(***************************************************************************)
\* the frame of the actions that touch only the credential section
profileFrame == << frontend, fs, config_creds, returned, run_files, write_failed,
                   loopVars, call_type_combo, execute_btn, save_btn, output_file,
                   results_text, signals, emitted, runs, stale, app_state >>

\* save_as_profile: the fields, the name dialog, save_profiles,
\* update_profile_dropdown and the selection of the new profile
SaveAsProfileStep(typed, key, secret, given, disk_ok) ==
    IF key = << >> \/ secret = << >>
    THEN /\ key_input' = typed[1]
         /\ secret_input' = typed[2]
         /\ UNCHANGED << credentials, profileVars >>
    ELSE IF ~ (given.ok /\ given.text # "")
    THEN /\ key_input' = typed[1]
         /\ secret_input' = typed[2]
         /\ UNCHANGED << credentials, profileVars >>
    ELSE LET profiles == DictSet(saved_profiles, given.text,
                                 [key |-> key, secret |-> secret])
             rebuilt == UpdateProfileDropdown(profiles, profile_combo,
                            Window(credentials, typed[1], typed[2]))
             index == FindText(rebuilt.combo.items, given.text)
             chosen == IF index >= 0
                       THEN SetCurrentIndex(rebuilt.combo, index, profiles,
                                            rebuilt.window)
                       ELSE rebuilt
         IN  /\ saved_profiles' = profiles
             /\ credentials_file' = SaveProfiles(profiles, credentials_file, disk_ok)
             /\ profile_combo' = chosen.combo
             /\ credentials' = chosen.window.credentials
             /\ key_input' = chosen.window.key_input
             /\ secret_input' = chosen.window.secret_input

SaveAsProfile ==
    /\ frontend = "gui" /\ app_state = "running"
    /\ \E typed \in FieldTexts, given \in NameInputs, disk_ok \in ProfileDisk :
          SaveAsProfileStep(typed, Strip(typed[1]), Strip(typed[2]), given, disk_ok)
    /\ UNCHANGED profileFrame

\* the user picks an item of the profile dropdown
SelectProfile ==
    /\ frontend = "gui" /\ app_state = "running"
    /\ \E index \in 0..(Len(profile_combo.items) - 1) :
          LET chosen == SetCurrentIndex(profile_combo, index, saved_profiles,
                                        Window(credentials, key_input, secret_input))
          IN  /\ profile_combo' = chosen.combo
              /\ credentials' = chosen.window.credentials
              /\ key_input' = chosen.window.key_input
              /\ secret_input' = chosen.window.secret_input
    /\ UNCHANGED << saved_profiles, credentials_file >>
    /\ UNCHANGED profileFrame

\* the Load button: load_selected_profile
LoadProfile ==
    /\ frontend = "gui" /\ app_state = "running"
    /\ LET w == LoadSelectedProfile(CurrentText(profile_combo), saved_profiles,
                                    Window(credentials, key_input, secret_input))
       IN  /\ credentials' = w.credentials
           /\ key_input' = w.key_input
           /\ secret_input' = w.secret_input
    /\ UNCHANGED profileVars
    /\ UNCHANGED profileFrame

\* delete_profile
DeleteProfileStep(profile_name, reply, disk_ok) ==
    IF profile_name = Placeholder
    THEN UNCHANGED << credentials, fieldVars, profileVars >>
    ELSE IF reply = "Yes" /\ profile_name \in DOMAIN saved_profiles
    THEN LET profiles == DictDel(saved_profiles, profile_name)
             rebuilt == UpdateProfileDropdown(profiles, profile_combo,
                            Window(credentials, key_input, secret_input))
         IN  /\ saved_profiles' = profiles
             /\ credentials_file' = SaveProfiles(profiles, credentials_file, disk_ok)
             /\ profile_combo' = rebuilt.combo
             /\ credentials' = rebuilt.window.credentials
             /\ key_input' = rebuilt.window.key_input
             /\ secret_input' = rebuilt.window.secret_input
    ELSE UNCHANGED << credentials, fieldVars, profileVars >>

DeleteProfile ==
    /\ frontend = "gui" /\ app_state = "running"
    /\ \E reply \in {"Yes", "No"}, disk_ok \in ProfileDisk :
          DeleteProfileStep(CurrentText(profile_combo), reply, disk_ok)
    /\ UNCHANGED profileFrame

\* the call types the user picks in call_type_combo
ComboChoices == { CallNames[1], CallNames[Len(CallNames)] }

\* the user picks an item of call_type_combo (app.py lines 351-356)
SelectCall ==
    /\ frontend = "gui" /\ app_state = "running"
    /\ call_type_combo' \in ComboChoices
    /\ UNCHANGED << frontend, fieldVars, profileVars, fs, config_creds, returned,
                    run_files, write_failed, loopVars, credentials, execute_btn,
                    save_btn, output_file, results_text, signals, emitted, runs,
                    stale, app_state >>

\* what the server answers in the second specification
GuiOutcomes ==
    { [err |-> "none", status_code |-> HttpOk, body |-> ObjBody(t, "a")] :
        t \in 1..GuiMaxTotal }
    \cup { [err |-> "none", status_code |-> 500, body |-> << "<html>" >>] }

GuiWorkerResponse == WorkerResponseOn(GuiOutcomes)

GuiExecuteApiCall == ExecuteApiCallUpTo(GuiMaxRuns)

GuiInit ==
    \E cfg \in {None, << Key1, Secret1 >>}, file \in ProfileFiles :
        InitFrom("gui", {}, cfg, file)

GuiNext ==
    \/ ApplyCredentials
    \/ SaveAsProfile
    \/ SelectProfile
    \/ LoadProfile
    \/ DeleteProfile
    \/ SelectCall
    \/ GuiExecuteApiCall
    \/ WorkerRequest
    \/ GuiWorkerResponse
    \/ UpdateProgress
    \/ HandleLogOutput
    \/ ProcessResults
    \/ HandleError

GuiSpec == GuiInit /\ [][GuiNext]_vars

(***************************************************************************)
(* Properties.  A run is one execution of the fetch loop: the command line *)
(* program's, or one ApiWorker's.                                          *)
(***************************************************************************)
Started == frontend \in {"cli", "gui"} /\ pc \notin {"creds", "select", "idle"}
LoopOver == pc \in {"except", "done"}
Answers == Len(outcomes)

\* kinds of HTTP outcome, read off the wire
Http200(o) == o.err = "none" /\ o.status_code = 200
Non200(o) == o.err = "none" /\ o.status_code # 200
DeclaresTotal(o, t) == Http200(o) /\ o.body = ObjBody(t, "a")
EmptyBody(o) == Http200(o) /\ o.body \in { << "null" >>, << "{", "}" >> }
NotJson(o) == Http200(o) /\ o.body = << "{", "total_de_paginas", ":" >>
Regular(o) ==
    Non200(o) \/ EmptyBody(o) \/ \E t \in 0..MaxTotal : DeclaresTotal(o, t)
\* page k is one the loop has to stop after
StopPage(k) ==
    \/ Non200(outcomes[k])
    \/ EmptyBody(outcomes[k])
    \/ \E t \in 0..MaxTotal : DeclaresTotal(outcomes[k], t) /\ k >= t

\* the error signal of an exception / of an empty result, the finished signal
EmittedSigs(name) == { i \in 1..Len(emitted) : emitted[i].sig = name }
PendingSigs(name) == { i \in 1..Len(signals) : signals[i].sig = name }

\* the files of this run hold exactly the JSON array of the bodies 1..n
RECURSIVE JoinedBodies(_, _)
JoinedBodies(outs, n) ==
    IF n = 0 THEN << >>
    ELSE IF n = 1 THEN outs[1].body
    ELSE JoinedBodies(outs, n - 1) \o << "," >> \o outs[n].body
ArrayOfBodies(outs, n) == << "[" >> \o JoinedBodies(outs, n) \o << "]" >>

\* C1: when every answer of a run either declares a total or is empty or is
\* not a 200, the loop stops exactly after the first page k that is empty,
\* not a 200, or has k >= its declared total: no later page is requested,
\* the loop does not stop earlier, and all_results holds one element per
\* page that came back with data.
C1_StopsAtFirstStopPage ==
    (Started /\ \A k \in 1..Answers : Regular(outcomes[k])) =>
        /\ Len(requests) \in {Answers, Answers + 1}
        /\ \A k \in 1..(Answers - 1) : ~ StopPage(k)
        /\ (Answers >= 1 /\ StopPage(Answers)) =>
              (LoopOver /\ Len(requests) = Answers)
        /\ (Answers >= 1 /\ ~ StopPage(Answers)) => InLoop
        /\ Len(all_results) =
              Cardinality({ k \in 1..Answers :
                              \E t \in 0..MaxTotal : DeclaresTotal(outcomes[k], t) })

\* a run of the application that fetched two pages and stopped on an empty
\* third one, before the declared total was reached
C1_Witness ==
    /\ frontend = "gui" /\ pc = "done" /\ Answers = 3
    /\ DeclaresTotal(outcomes[1], MaxTotal) /\ DeclaresTotal(outcomes[2], MaxTotal)
    /\ EmptyBody(outcomes[3])
    /\ Len(all_results) = 2 /\ Len(requests) = 3

\* C2: when every answer is a non-empty 200 body declaring the same total
\* T >= 1, the requests are pagina 1, 2, ..., in order, never more than T of
\* them, the loop is still going before the T-th answer and is over after it.
C2_SameTotalFetchesOneToT ==
    \A T \in 1..MaxTotal :
        (Started /\ \A k \in 1..Answers : DeclaresTotal(outcomes[k], T)) =>
            /\ Len(requests) <= T
            /\ \A k \in 1..Len(requests) : requests[k].pagina = k
            /\ pc = "await" => requests[Len(requests)].pagina = current_page
            /\ Answers < T => InLoop
            /\ Answers = T => (LoopOver /\ Len(requests) = T)

\* the command line program after pages 1, 2, 3 of a total of 3
C2_Witness ==
    /\ frontend = "cli" /\ pc = "done" /\ Answers = 3
    /\ \A k \in 1..3 : DeclaresTotal(outcomes[k], 3)
    /\ Len(requests) = 3 /\ requests[3].pagina = 3

\* C3: a non-200 answer on page k > 1 ends the loop without an exception;
\* the k-1 earlier answers are all kept, and (unless opening the output file
\* itself fails) written to the output file; no page number is requested twice.
C3_Non200KeepsEarlierPages ==
    /\ \A i, j \in 1..Len(requests) : i # j => requests[i].pagina # requests[j].pagina
    /\ (Started /\ Answers >= 2 /\ Non200(outcomes[Answers])) =>
          /\ LoopOver /\ pc = "done"
          /\ escaped = "none"
          /\ Len(requests) = Answers
          /\ Len(all_results) = Answers - 1
          /\ \A i \in 1..(Answers - 1) : all_results[i] = Loads(outcomes[i].body).val
          /\ frontend = "cli" =>
                /\ write_failed = ("An error occurred" \in console)
                /\ ~ write_failed =>
                      /\ Len(run_files) = 1
                      /\ fs[run_files[1]] = ArrayOfBodies(outcomes, Answers - 1)
          /\ frontend = "gui" =>
                /\ EmittedSigs("error") = {}
                /\ \E i \in EmittedSigs("finished") : emitted[i].results = all_results
                /\ (PendingSigs("finished") = {} /\ ~ write_failed) =>
                      /\ Len(run_files) = 1
                      /\ fs[run_files[1]] = ArrayOfBodies(outcomes, Answers - 1)

\* the application has saved two pages after a 500 on page 3
C3_Witness ==
    /\ frontend = "gui" /\ Answers = 3 /\ Non200(outcomes[3])
    /\ Len(run_files) = 1 /\ Len(Loads(fs[run_files[1]]).val.items) = 2

\* C4: when the first answer of a run is not a 200, all_results is empty and
\* the run creates no file; the command line program just ends, the worker
\* emits the empty-result error and never finished.
C4_FirstNon200WritesNothing ==
    (Started /\ Answers >= 1 /\ Non200(outcomes[1])) =>
        /\ Answers = 1 /\ Len(requests) = 1
        /\ all_results = << >>
        /\ run_files = << >> /\ ~ write_failed
        /\ pc = "done" /\ escaped = "none"
        /\ frontend = "cli" =>
              /\ \A f \in DOMAIN fs : fs[f] = OldContent
              /\ "An error occurred" \notin console
              /\ "Response saved" \notin console
        /\ frontend = "gui" =>
              /\ EmittedSigs("finished") = {}
              /\ \E i \in EmittedSigs("error") : emitted[i].msg = << EmptyResponse >>
              /\ Cardinality(EmittedSigs("error")) = 1

\* the application showing the empty-result error after a 500 on page 1
C4_Witness ==
    /\ frontend = "gui" /\ Answers = 1 /\ Non200(outcomes[1])
    /\ signals = << >> /\ execute_btn
    /\ results_text = << "ERROR", "Details:", EmptyResponse >>

\* C5 as stated: a 200 answer that is not JSON ends the loop without an
\* exception, and the pages collected before it still reach the output file.
C5_Original ==
    (Started /\ Answers >= 1 /\ NotJson(outcomes[Answers])) =>
        /\ "An error occurred" \notin console
        /\ EmittedSigs("error") = {}
        /\ (frontend = "cli" /\ Answers >= 2 /\ ~ write_failed) =>
              /\ Len(run_files) = 1
              /\ fs[run_files[1]] = ArrayOfBodies(outcomes, Answers - 1)

\* C5, amended: a 200 answer that is not JSON, on any page k, makes
\* response.json() raise; the exception ends the loop and is caught by the
\* top-level handler (the command line program prints "An error occurred",
\* the worker emits error with the traceback and never finished), and the
\* k-1 pages collected before it are not written: the run creates no file.
C5_NotJsonRaisesAndDropsPages ==
    (Started /\ Answers >= 1 /\ NotJson(outcomes[Answers])) =>
        /\ LoopOver /\ Len(requests) = Answers
        /\ escaped = "none"
        /\ Len(all_results) = Answers - 1
        /\ run_files = << >> /\ ~ write_failed
        /\ frontend = "cli" =>
              /\ pc = "done"
              /\ "An error occurred" \in console
              /\ "Response saved" \notin console
              /\ \A f \in DOMAIN fs : fs[f] = OldContent
        /\ frontend = "gui" =>
              /\ EmittedSigs("finished") = {}
              /\ \E i \in EmittedSigs("error") :
                    emitted[i].msg = << "JSONDecodeError", "traceback" >>

\* two pages were collected, the third answer was not JSON, nothing is on disk
C5_Witness ==
    /\ frontend = "cli" /\ pc = "done" /\ Answers = 3 /\ NotJson(outcomes[3])
    /\ Len(all_results) = 2 /\ run_files = << >>

\* C6: every file a step creates is the first name of response.json,
\* response_1.json, response_2.json, ... that did not exist before the step,
\* and a step leaves every file that existed as it was.
FirstFree(f, existing) ==
    \E i \in 0..Cardinality(existing) :
        /\ f = NameAt(i)
        /\ f \notin existing
        /\ \A j \in 0..(i - 1) : NameAt(j) \in existing

C6_WritesFirstFreeName ==
    [][ /\ \A f \in DOMAIN fs : f \in DOMAIN fs' /\ fs'[f] = fs[f]
        /\ \A f \in (DOMAIN fs') \ (DOMAIN fs) : FirstFree(f, DOMAIN fs)
        /\ Cardinality((DOMAIN fs') \ (DOMAIN fs)) <= 1 ]_vars

\* response.json and response_1.json existed, the run wrote response_2.json
C6_Witness ==
    /\ { NameAt(0), NameAt(1), NameAt(2) } \subseteq DOMAIN fs
    /\ fs[NameAt(0)] = OldContent /\ fs[NameAt(1)] = OldContent
    /\ run_files = << NameAt(2) >>

\* response_1.json existed and response.json did not: the run wrote
\* response.json
C6_WitnessGap ==
    /\ NameAt(0) \in DOMAIN fs /\ fs[NameAt(0)] # OldContent
    /\ NameAt(1) \in DOMAIN fs /\ fs[NameAt(1)] = OldContent
    /\ run_files = << NameAt(0) >>

\* C7: the i-th element of all_results is the parsed body of the answer to
\* the request with pagina = i, and serializes back to that body; the file a
\* run writes is the JSON array of those bodies in that order, with
\* repeated bodies repeated.
C7_ResultsAreBodiesInFetchOrder ==
    Started =>
        /\ Len(all_results) <= Answers
        /\ \A i \in 1..Len(all_results) :
              /\ requests[i].pagina = i
              /\ all_results[i] = Loads(outcomes[i].body).val
              /\ DumpItem(all_results[i]) = outcomes[i].body
        /\ \A i \in 1..Len(run_files) :
              /\ fs[run_files[i]] = ArrayOfBodies(outcomes, Len(all_results))
              /\ Loads(fs[run_files[i]]).val.items = all_results
        /\ \A i \in EmittedSigs("finished") : emitted[i].results = all_results

\* a file holding three pages, the second and third bodies identical and
\* different from the first
C7_Witness ==
    /\ Started /\ Len(run_files) = 1 /\ Answers = 3
    /\ outcomes[2].body = outcomes[3].body
    /\ outcomes[1].body # outcomes[2].body
    /\ Len(Loads(fs[run_files[1]]).val.items) = 3

\* C8: a run writes at most one file, and none while its loop is going:
\* when the file exists every request of the run has been answered and the
\* file holds the whole result.
C8_OneWriteAfterTheLoop ==
    Started =>
        /\ Len(run_files) <= 1
        /\ InLoop => run_files = << >>
        /\ run_files # << >> =>
              /\ pc = "done"
              /\ Len(requests) = Answers
              /\ run_files[1] \in DOMAIN fs
              /\ fs[run_files[1]] = Dumps(all_results)

\* three pages fetched, then one file
C8_Witness ==
    /\ frontend = "gui" /\ pc = "done" /\ Len(requests) = 3
    /\ Len(run_files) = 1 /\ Len(all_results) = 3

\* kinds of outcome that make the loop raise
ConnectionFails(o) == o.err = "ConnectionError"
ListBody(o) == Http200(o) /\ o.body = << "[", "1", "]" >>
TextTotal(o) ==
    Http200(o) /\ o.body = << "{", "total_de_paginas", ":", "x", ",", "payload", ":", "a", "}" >>
RaisedBy(o) ==
    CASE ConnectionFails(o) -> "ConnectionError"
      [] NotJson(o)         -> "JSONDecodeError"
      [] ListBody(o)        -> "AttributeError"
      [] TextTotal(o)       -> "TypeError"
      [] OTHER              -> "none"

\* C9: no exception of the fetch loop leaves the top-level handler.  The
\* command line program prints it and ends; the worker emits error with the
\* message and the traceback, the application keeps running, and once the
\* error is delivered Execute is enabled and the details are shown.
C9_LoopExceptionsAreCaught ==
    frontend \in {"cli", "gui"} =>
        /\ escaped = "none"
        /\ (Started /\ Answers >= 1 /\ RaisedBy(outcomes[Answers]) # "none") =>
              /\ LoopOver
              /\ frontend = "cli" =>
                    /\ pc = "done"
                    /\ "An error occurred" \in console
              /\ frontend = "gui" =>
                    /\ app_state = "running"
                    /\ EmittedSigs("finished") = {}
                    /\ \E i \in EmittedSigs("error") :
                          emitted[i].msg = << RaisedBy(outcomes[Answers]), "traceback" >>
                    /\ PendingSigs("error") = {} =>
                          /\ execute_btn
                          /\ results_text = << "ERROR", "Details:",
                                               RaisedBy(outcomes[Answers]), "traceback" >>

\* the connection broke on page 2; the error is on screen, Execute enabled
C9_Witness ==
    /\ frontend = "gui" /\ Answers = 2 /\ ConnectionFails(outcomes[2])
    /\ signals = << >> /\ execute_btn /\ app_state = "running"
    /\ results_text = << "ERROR", "Details:", "ConnectionError", "traceback" >>

\* C10: api_omie given a name that is not in config.calltype raises
\* ValueError and posts nothing; every request goes to the registered URL
\* of a registered name; select_call_type hands the loop a registered name
\* only, and is still prompting after every input that is not one of 1..7.
C10_UnregisteredCallRaises ==
    /\ \A i \in 1..Len(requests) :
          /\ requests[i].call \in Registered
          /\ \E k \in 1..Len(CallNames) :
                CallNames[k] = requests[i].call /\ CallUrls[k] = requests[i].url
    /\ (frontend = "lib" /\ pc # "call" /\ run_call \notin Registered) =>
          /\ escaped = "ValueError"
          /\ pc = "done"
          /\ requests = << >> /\ outcomes = << >>
    /\ (frontend = "lib" /\ pc # "call" /\ run_call \in Registered) =>
          Len(requests) = 1
    /\ (frontend = "cli" /\ pc \notin {"creds", "select"}) => run_call \in Registered
    /\ (frontend = "cli" /\ pc \in {"creds", "select"}) => run_call = ""
    /\ (frontend = "cli" /\ console \cap { "Invalid selection. Please enter a valid number.",
                                           "Please enter a valid number." } # {}
          /\ run_call = "") => pc = "select"

\* a caller passed "ListarPedidos": ValueError, nothing posted
C10_Witness ==
    /\ frontend = "lib" /\ pc = "done" /\ run_call = "ListarPedidos"
    /\ escaped = "ValueError" /\ requests = << >>

\* the prompt is still open after an out-of-range and a non-numeric input
C10_WitnessPrompt ==
    /\ frontend = "cli" /\ pc = "select" /\ run_call = ""
    /\ console = { "Invalid selection. Please enter a valid number.",
                   "Please enter a valid number." }

(***************************************************************************)
(* C11: for every profile name save_as_profile accepts and every non-empty *)
(* (key, secret), saving the profile and then loading it by selecting that *)
(* name makes exactly that pair the active credentials; saving under an    *)
(* existing name replaces the profile, so names stay unique.               *)
(* Stated on steps: whenever an item after the first becomes the current   *)
(* item of the dropdown (the user picks it, or save_as_profile selects the *)
(* profile it has just saved), its text is a saved name and that profile's *)
(* pair is the active pair and fills both fields; a step that saves a      *)
(* profile saves a non-empty pair under a non-empty name; and every saved  *)
(* name is the text of exactly one item after the first.                   *)
(***************************************************************************)
ProfilePair(profiles, name) == << profiles[name].key, profiles[name].secret >>

\* an item after the first becomes the current one
ProfileItemChosen ==
    profile_combo'.index >= 1 /\ profile_combo'.index # profile_combo.index

\* the names a step saves: new, or with another pair than before
SavedNow ==
    { n \in DOMAIN saved_profiles' :
        n \notin DOMAIN saved_profiles \/ saved_profiles'[n] # saved_profiles[n] }

ItemsOf(combo, name) == { i \in 2..Len(combo.items) : combo.items[i] = name }

C11_Original ==
    [][ /\ ProfileItemChosen =>
             LET n == CurrentText(profile_combo')
             IN  /\ n \in DOMAIN saved_profiles'
                 /\ credentials' = ProfilePair(saved_profiles', n)
                 /\ << key_input', secret_input' >> = credentials'
        /\ \A n \in SavedNow :
             /\ n # ""
             /\ saved_profiles'[n].key # << >> /\ saved_profiles'[n].secret # << >>
        /\ \A n \in DOMAIN saved_profiles' :
             Cardinality(ItemsOf(profile_combo', n)) = 1
      ]_vars

(***************************************************************************)
(* C12: if writing the output file fails after the result has been         *)
(* assembled, the failure is surfaced to the user and the run still ends   *)
(* in a completed state: the command line program reports the error and    *)
(* exits normally, and the window leaves the run finished with the Execute *)
(* button available again.                                                 *)
(***************************************************************************)
\* the command line half of C12
CliWriteFailureReported ==
    (frontend = "cli" /\ write_failed)
        => /\ pc = "done"
           /\ escaped = "none"
           /\ "An error occurred" \in console
           /\ run_files = << >>

\* the window's half of C12
GuiWriteFailureHandled ==
    (frontend = "gui" /\ write_failed)
        => /\ app_state = "running"
           /\ execute_btn

C12_Original == CliWriteFailureReported /\ GuiWriteFailureHandled

(***************************************************************************)
(* C13: every request of one run carries page size 50 and the call name    *)
(* and (key, secret) pair that were fixed when the run started; applying   *)
(* other credentials, loading or deleting a profile, or picking another    *)
(* call type while the worker is running changes no request of the run in  *)
(* progress.                                                               *)
(* Stated on steps of the window: the step that starts a worker gives it   *)
(* the call type and the credentials the window holds at that moment; no   *)
(* other step changes them or a request already sent; and after every step *)
(* the i-th request of the run carries them, page i and page size 50.      *)
(***************************************************************************)
IsPrefix(a, b) == Len(a) <= Len(b) /\ SubSeq(b, 1, Len(a)) = a

CarriesRunArguments(r, i, call, creds) ==
    /\ r.call = call
    /\ r.app_key = creds[1]
    /\ r.app_secret = creds[2]
    /\ r.pagina = i
    /\ r.registros_por_pagina = 50

C13_RequestsCarryRunArguments ==
    [][ /\ runs' # runs =>
             /\ run_call' = call_type_combo
             /\ run_credentials' = credentials
             /\ requests' = << >>
        /\ runs' = runs =>
             /\ run_call' = run_call
             /\ run_credentials' = run_credentials
             /\ IsPrefix(requests, requests')
        /\ \A i \in 1..Len(requests') :
             CarriesRunArguments(requests'[i], i, run_call', run_credentials')
      ]_vars

\* the worker is about to send page 2 while the window already holds other
\* credentials, another call type and no profile
C13_Witness ==
    /\ pc = "request" /\ Len(requests) = 1
    /\ credentials # run_credentials
    /\ call_type_combo # run_call
    /\ DOMAIN saved_profiles = {}
    /\ credentials_file # None

(***************************************************************************)
(* C14: in the window the fetch loops of two runs never overlap.  The      *)
(* Execute button is disabled from the moment a worker is started until    *)
(* that worker's finished or error signal has been handled, so a worker is *)
(* started only when no loop is fetching and no outcome is waiting to be   *)
(* handled, and within a run request k+1 is sent only after the answer to  *)
(* request k has come back.                                                *)
(***************************************************************************)
OutcomePending ==
    \E i \in 1..Len(signals) : signals[i].sig \in {"finished", "error"}

C14_RunsDoNotOverlap ==
    [][ frontend = "gui" =>
        \* while a loop is fetching the button is disabled
        /\ (pc' \in {"request", "await"}) => ~ execute_btn'
        \* a worker is started by an enabled button, with no loop fetching
        \* and no outcome of an earlier worker still to be handled
        /\ runs' # runs =>
             /\ execute_btn /\ ~ execute_btn'
             /\ pc \notin {"request", "await"}
             /\ ~ OutcomePending
             /\ all_results' = << >> /\ pc' = "request"
        \* only the slot of finished or of error enables the button again
        /\ (execute_btn' /\ ~ execute_btn) =>
             /\ signals # << >>
             /\ Head(signals).sig \in {"finished", "error"}
             /\ signals' = Tail(signals)
             /\ pc \notin {"request", "await"}
        \* one request at a time, each after the answer to the one before
        /\ Len(requests') \in {Len(outcomes'), Len(outcomes') + 1}
        /\ Len(requests') > Len(requests) =>
             /\ Len(requests) = Len(outcomes)
             /\ Len(requests') = Len(requests) + 1
        /\ (pc' = "await") <=> (Len(requests') = Len(outcomes') + 1)
      ]_vars

\* the second worker of a session is waiting for the answer to its second
\* request while the first worker has not yet left its except block
C14_Witness ==
    /\ frontend = "gui" /\ runs = 2
    /\ pc = "await" /\ Len(requests) = 2
    /\ stale # << >>
    /\ ~ execute_btn

(***************************************************************************)
(* C15: once started, every run terminates, provided the totals the server *)
(* declares are bounded: if every response declares total_de_paginas <= B, *)
(* the run issues at most max(1, B) requests and then stops.               *)
(***************************************************************************)
DeclaresAtMost(o, B) == \E t \in 0..B : DeclaresTotal(o, t)

Max(a, b) == IF a >= b THEN a ELSE b

RequestsBounded ==
    Started =>
        \A B \in 0..MaxTotal :
            (\A i \in 1..Len(outcomes) : DeclaresAtMost(outcomes[i], B))
                => Len(requests) <= Max(1, B)

C15_RunsTerminate ==
    /\ [] RequestsBounded
    /\ (Started /\ InLoop) ~> LoopOver

\* a run whose first page declared 3 pages and whose second declared 2 has
\* stopped after two requests
C15_Witness ==
    /\ Started /\ LoopOver
    /\ Len(requests) = 2 /\ Len(outcomes) = 2
    /\ DeclaresTotal(outcomes[1], 3)
    /\ DeclaresTotal(outcomes[2], 2)

(***************************************************************************)
(* C16: a non-empty HTTP 200 response on page k that declares              *)
(* total_de_paginas = 0, or that has no total_de_paginas field (read as    *)
(* 0), ends the loop right after page k without raising, and that response *)
(* is itself part of the result: a run whose first page declares 0 yields  *)
(* a result of length 1 and writes a file.                                 *)
(***************************************************************************)
NoTotalField(o) == Http200(o) /\ o.body = << "{", "payload", ":", "a", "}" >>
ZeroOrNoTotal(o) == DeclaresTotal(o, 0) \/ NoTotalField(o)

C16_ZeroTotalEndsLoopKeepingPage ==
    (Started /\ Answers >= 1 /\ ZeroOrNoTotal(outcomes[Answers])) =>
        LET k == Answers
        IN  /\ pc = "done"
            /\ escaped = "none"
            /\ ~ write_failed => "An error occurred" \notin console
            /\ Len(requests) = k
            /\ Len(all_results) = k
            /\ Dumps(<< all_results[k] >>) = << "[" >> \o outcomes[k].body \o << "]" >>
            /\ (frontend = "cli" /\ ~ write_failed) =>
                  /\ Len(run_files) = 1
                  /\ fs[run_files[1]] = ArrayOfBodies(outcomes, k)
            /\ frontend = "gui" =>
                  /\ EmittedSigs("error") = {}
                  /\ \E i \in EmittedSigs("finished") :
                        emitted[i].results = all_results
                  /\ (PendingSigs("finished") = {} /\ ~ write_failed) =>
                        /\ Len(run_files) = 1
                        /\ fs[run_files[1]] = ArrayOfBodies(outcomes, k)

\* the first page declares 0, or has no total, and the run has written the
\* file with that one page
C16_Witness ==
    /\ Started /\ Answers = 1
    /\ DeclaresTotal(outcomes[1], 0)
    /\ Len(all_results) = 1
    /\ Len(run_files) = 1
    /\ fs[run_files[1]] = ArrayOfBodies(outcomes, 1)

\* the same on a later page, for a response without the field
C16_WitnessLaterPage ==
    /\ Started /\ Answers = 2
    /\ NoTotalField(outcomes[2])
    /\ Len(all_results) = 2
    /\ Len(run_files) = 1
    /\ fs[run_files[1]] = ArrayOfBodies(outcomes, 2)

(***************************************************************************)
(* C17: every execution of ApiWorker.run emits exactly one outcome signal, *)
(* either finished (with a non-empty result) or error, never both and      *)
(* never neither, and emits log_output exactly once; finished is emitted   *)
(* only when at least one page response was collected and no exception     *)
(* occurred.                                                               *)
(***************************************************************************)
Outcomes == EmittedSigs("finished") \cup EmittedSigs("error")

\* run() has returned
RunReturned == frontend = "gui" /\ runs >= 1 /\ pc = "done" /\ escaped = "none"

\* an exception was raised inside run()
RunRaised ==
    \/ \E i \in 1..Len(outcomes) : RaisedBy(outcomes[i]) # "none"
    \/ Len(requests) = Len(outcomes) /\ pc \in {"except", "done"}
         /\ run_call \notin Registered

C17_OneOutcomeSignalPerRun ==
    frontend = "gui" =>
        /\ Cardinality(Outcomes) <= 1
        /\ Cardinality(EmittedSigs("log_output")) <= 1
        /\ InLoop => (Outcomes = {} /\ EmittedSigs("log_output") = {})
        /\ pc = "except" =>
              (Cardinality(EmittedSigs("error")) = 1 /\ EmittedSigs("log_output") = {})
        /\ RunReturned =>
              /\ Cardinality(Outcomes) = 1
              /\ Cardinality(EmittedSigs("log_output")) = 1
        /\ \A i \in EmittedSigs("finished") :
              /\ emitted[i].results # << >>
              /\ emitted[i].results = all_results
              /\ ~ RunRaised
        /\ (RunReturned /\ (all_results = << >> \/ RunRaised)) =>
              Cardinality(EmittedSigs("error")) = 1

\* a run that collected a page and then met an exception has returned: one
\* error, one log_output, no finished
C17_Witness ==
    /\ RunReturned /\ RunRaised
    /\ all_results # << >>
    /\ Cardinality(EmittedSigs("error")) = 1
    /\ Cardinality(EmittedSigs("log_output")) = 1
    /\ EmittedSigs("finished") = {}

\* a run that collected two pages has returned: one finished, one log_output
C17_WitnessFinished ==
    /\ RunReturned /\ ~ RunRaised
    /\ Len(all_results) = 2
    /\ Cardinality(EmittedSigs("finished")) = 1
    /\ Cardinality(EmittedSigs("log_output")) = 1
    /\ EmittedSigs("error") = {}

(***************************************************************************)
(* C18: in every reachable state of the window the Save Results button is  *)
(* enabled only if no run is in progress and the most recently completed   *)
(* run finished successfully and wrote its output file; starting a run     *)
(* disables it, and a run that ends in error or with an empty result       *)
(* leaves it disabled even though output_file still names an earlier run's *)
(* file.                                                                   *)
(***************************************************************************)
C18_SaveEnabledOnlyAfterWrittenRun ==
    frontend = "gui" =>
        /\ save_btn =>
              /\ runs >= 1 /\ pc = "done" /\ escaped = "none"
              /\ Cardinality(EmittedSigs("finished")) = 1
              /\ EmittedSigs("error") = {}
              /\ PendingSigs("finished") = {}
              /\ ~ write_failed
              /\ Len(run_files) = 1
              /\ output_file = << run_files[1] >>
              /\ run_files[1] \in DOMAIN fs
              /\ fs[run_files[1]] = Dumps(all_results)
        /\ (runs >= 1 /\ (pc # "done" \/ EmittedSigs("error") # {})) => ~ save_btn

\* the second run of a session has ended in error and the error has been
\* handled: Save Results is disabled, and output_file names the file the
\* first run wrote
C18_Witness ==
    /\ frontend = "gui" /\ runs = 2 /\ pc = "done"
    /\ EmittedSigs("error") # {} /\ PendingSigs("error") = {}
    /\ execute_btn /\ ~ save_btn
    /\ output_file # None
    /\ output_file[1] \in DOMAIN fs
    /\ fs[output_file[1]] # OldContent
    /\ run_files = << >>

(***************************************************************************)
(* C19: delete_profile removes the selected name from the saved profiles   *)
(* and the dropdown but leaves the active credentials unchanged: after     *)
(* deleting the profile that is currently active, its (key, secret) pair   *)
(* is still the active pair and is used by the next Execute.               *)
(* Stated on states: whenever a profile's item (an item after the first)   *)
(* is the current item of the dropdown, delete_profile can delete it, that *)
(* is, a step of delete_profile exists after which the name is neither a   *)
(* saved profile nor an item and the active credentials are what they were.*)
(***************************************************************************)
DeletesSelected ==
    /\ DeleteProfile
    /\ CurrentText(profile_combo) \notin DOMAIN saved_profiles'
    /\ ItemsOf(profile_combo', CurrentText(profile_combo)) = {}
    /\ credentials' = credentials

C19_Original ==
    (frontend = "gui" /\ app_state = "running" /\ profile_combo.index >= 1)
        => ENABLED DeletesSelected

\* the half of C19 about the credentials: a step that removes a profile
\* removes the one that was selected, from the profiles and from the
\* dropdown, and leaves the active credentials and both fields as they were
DeletionLeavesCredentials ==
    [][ (DOMAIN saved_profiles' # DOMAIN saved_profiles
         /\ DOMAIN saved_profiles' \subseteq DOMAIN saved_profiles) =>
            /\ DOMAIN saved_profiles \ DOMAIN saved_profiles'
                  = { CurrentText(profile_combo) }
            /\ ItemsOf(profile_combo', CurrentText(profile_combo)) = {}
            /\ profile_combo'.index = 0
            /\ credentials' = credentials
            /\ << key_input', secret_input' >> = << key_input, secret_input >>
      ]_vars

\* the active profile has been deleted and the worker started afterwards
\* has sent its first request with that profile's pair
DeletedProfileStillUsed ==
    /\ frontend = "gui" /\ DOMAIN saved_profiles = {}
    /\ credentials_file = << saved_profiles >>
    /\ credentials = << Key2, Secret2 >>
    /\ Len(requests) = 1
    /\ requests[1].app_key = Key2 /\ requests[1].app_secret = Secret2

====
